---- MODULE Spec2Model ----
(***************************************************************************)
(* Model of viz.py: the Stable Player Impact dashboard.                    *)
(*                                                                         *)
(* The tables are loaded once (Init), the combined table is the left merge *)
(* of the salary table with the primary table, and two Dash callbacks      *)
(* (update_graph, update_scatter_plot) recompute their figure whenever one *)
(* of their Input widgets changes.                                         *)
(*                                                                         *)
(* A DataFrame is a sequence of records; the position of a row is its      *)
(* index label, which boolean-mask indexing keeps.  The impact scores and  *)
(* the salary amount are not modelled: no condition of the code reads them.*)
(***************************************************************************)
EXTENDS Integers, Sequences, FiniteSets, TLC

\* ------------------------------------------------------------------------
\* Bounds of the model
\* ------------------------------------------------------------------------
MaxPrimary == 2
MaxSalary == 2

\* ------------------------------------------------------------------------
\* Values
\* ------------------------------------------------------------------------
\* The missing value of a text column and of the Age column after the merge.
NaN == "NaN"
NaNAge == 0

Players == {"A", "B"}
SalaryNames == {"A", "C"}
Teams == {"X", "Y"}
Ages == {1, 2}

good_color == "#008000"
bad_color == "#FF0000"
offense_color == "#0000FF"
defense_color == "#2f4f4f"

\* The values of the options of dropdown-metric.
MetricValues == {"O-SPI", "D-SPI", "SPI"}

\* A row of 22_23_spi_data.csv.  The Offensive Archetype may be missing; Age
\* is an integer column (the slider marks are built with range() on it).
PlayerRecords ==
    [Player : Players, Team : Teams,
     OffensiveArchetype : {"Slasher", NaN}, Age : Ages]

\* A row of nba_salaries.csv reduced to the columns kept at line 13.
SalaryRecords == [PlayerName : SalaryNames]

SeqsUpTo(S, n) == UNION {[1..k -> S] : k \in 0..n}

\* The primary table has at least one row: the slider bounds are its
\* minimum and maximum age.
PrimaryTables == SeqsUpTo(PlayerRecords, MaxPrimary) \ {<<>>}
SalaryTables == SeqsUpTo(SalaryRecords, MaxSalary)

\* ------------------------------------------------------------------------
\* Load time
\* ------------------------------------------------------------------------
RECURSIVE Concat(_)
Concat(ss) == IF ss = <<>> THEN <<>> ELSE Head(ss) \o Concat(Tail(ss))

\* MergeRow as an inner join would have it: a left row without a match is
\* dropped.
MergeRow_inner(l, right) ==
    LET hits == SelectSeq(right, LAMBDA r : r.Player = l.PlayerName)
    IN  [k \in 1..Len(hits) |->
            [PlayerName |-> l.PlayerName, Player |-> hits[k].Player,
             Team |-> hits[k].Team,
             OffensiveArchetype |-> hits[k].OffensiveArchetype,
             Age |-> hits[k].Age]]

\* The rows of the right table that carry the key of one left row, in the
\* right table's order, joined to that left row; one row of missing values
\* when there is none (how='left').
MergeRow(l, right) ==
    LET hits == SelectSeq(right, LAMBDA r : r.Player = l.PlayerName)
    IN  IF hits = <<>>
        THEN << [PlayerName |-> l.PlayerName, Player |-> NaN, Team |-> NaN,
                 OffensiveArchetype |-> NaN, Age |-> NaNAge] >>
        ELSE [k \in 1..Len(hits) |->
                 [PlayerName |-> l.PlayerName, Player |-> hits[k].Player,
                  Team |-> hits[k].Team,
                  OffensiveArchetype |-> hits[k].OffensiveArchetype,
                  Age |-> hits[k].Age]]

\* merge on a right table reduced to the first row of each player.
merge_first_stint(left, right) ==
    Concat([i \in 1..Len(left) |->
               LET rows == MergeRow(left[i], right)
               IN  IF Len(rows) > 1 THEN <<rows[1]>> ELSE rows])

\* pd.merge(salary_data, spi_data, left_on="Player Name", right_on="Player",
\*          how='left')
merge(left, right) ==
    Concat([i \in 1..Len(left) |-> MergeRow(left[i], right)])

\* spi_data['Team'].dropna().unique()
valid_teams(t) == {t[i].Team : i \in DOMAIN t} \ {NaN}

\* spi_data['Offensive Archetype'].unique(): the missing value is one of the
\* values when a row has no archetype.
archetype_options(t) == {t[i].OffensiveArchetype : i \in DOMAIN t}

SetMin(S) == CHOOSE x \in S : \A y \in S : x <= y
SetMax(S) == CHOOSE x \in S : \A y \in S : x >= y

\* spi_data['Age'].min() and .max()
age_min(t) == SetMin({t[i].Age : i \in DOMAIN t})
age_max(t) == SetMax({t[i].Age : i \in DOMAIN t})

\* ------------------------------------------------------------------------
\* State
\* ------------------------------------------------------------------------
VARIABLES
    spi_data,            \* the primary table
    salary_data,         \* the salary table
    df_combined,         \* the combined table
    team_dropdown,       \* value of team-dropdown
    archetype_dropdown,  \* value of archetype-dropdown (multi=True)
    age_slider,          \* value of age-slider: <<low, high>>
    dropdown_metric,     \* value of dropdown-metric
    pending_graph,       \* update_graph has been triggered and not yet run
    pending_scatter,     \* update_scatter_plot has been triggered and not yet run
    spi_scatter,         \* figure of the graph spi-scatter
    scatter_plot         \* figure of the graph scatter-plot

tables == <<spi_data, salary_data, df_combined>>
widgets == <<team_dropdown, archetype_dropdown, age_slider, dropdown_metric>>
vars == <<spi_data, salary_data, df_combined, team_dropdown,
          archetype_dropdown, age_slider, dropdown_metric, pending_graph,
          pending_scatter, spi_scatter, scatter_plot>>

\* A graph before its callback has answered, and a callback that raised.
NoFigure == [kind |-> "none"]
CallbackError == [kind |-> "error"]

\* ------------------------------------------------------------------------
\* The filters
\* ------------------------------------------------------------------------
\* Series.isin(values): a missing value matches a missing value of the list.
isin(v, values) == v \in values

\* Series == value on a text column: a missing value equals nothing.
eq(v, value) == v # NaN /\ v = value

\* Series >= n and Series <= n: a missing value compares False.
ge(v, n) == v # NaNAge /\ v >= n
le(v, n) == v # NaNAge /\ v <= n

\* df[mask]: the index labels of the rows whose mask is True, in table order.
\* The mask is the set of the positions where it is True.
Masked(df, mask) ==
    SelectSeq([i \in 1..Len(df) |-> i], LAMBDA i : i \in mask)

\* graph_mask without the branch for 'ALL': the team is always compared.
graph_mask_no_sentinel(row, selected_team, selected_archetypes, age_range) ==
    /\ eq(row.Team, selected_team)
    /\ isin(row.OffensiveArchetype, selected_archetypes)
    /\ ge(row.Age, age_range[1])
    /\ le(row.Age, age_range[2])

\* The mask of update_graph.
graph_mask(row, selected_team, selected_archetypes, age_range) ==
    IF selected_team = "ALL"
    THEN /\ isin(row.OffensiveArchetype, selected_archetypes)
         /\ ge(row.Age, age_range[1])
         /\ le(row.Age, age_range[2])
    ELSE /\ eq(row.Team, selected_team)
         /\ isin(row.OffensiveArchetype, selected_archetypes)
         /\ ge(row.Age, age_range[1])
         /\ le(row.Age, age_range[2])

\* team_term without the conditional: the team is compared with 'ALL' too.
team_term_no_sentinel(row, selected_team) == eq(row.Team, selected_team)

\* The first term of the mask of update_scatter_plot: the comparison when a
\* team is selected, else the scalar True, which & broadcasts over the rows.
team_term(row, selected_team) ==
    IF selected_team # "ALL" THEN eq(row.Team, selected_team) ELSE TRUE

\* scatter_mask without the two age comparisons.
scatter_mask_no_age(row, selected_team, selected_archetypes, age_range) ==
    /\ team_term(row, selected_team)
    /\ isin(row.OffensiveArchetype, selected_archetypes)

\* The mask of update_scatter_plot.
scatter_mask(row, selected_team, selected_archetypes, age_range) ==
    /\ team_term(row, selected_team)
    /\ isin(row.OffensiveArchetype, selected_archetypes)
    /\ ge(row.Age, age_range[1])
    /\ le(row.Age, age_range[2])

\* The regression line color.  The metric is compared with the labels of the
\* dropdown options.
trendline_color(selected_metric) ==
    IF selected_metric = "SPI vs Salary" THEN good_color
    ELSE IF selected_metric = "O-SPI vs Salary" THEN offense_color
    ELSE defense_color

\* What px.scatter(..., trendline='ols') holds at trendline['data'][1] for
\* n points.  With two or more points it is the fitted line.  With fewer
\* points plotly fits nothing: the trendline trace has no points, and for a
\* table with no row the plotly releases that group the table with groupby
\* produce no trace at all.
trendline_trace(n) ==
    IF n >= 2 THEN {"fitted"}
    ELSE IF n = 1 THEN {"unfitted"}
    ELSE {"unfitted", "absent"}

\* ------------------------------------------------------------------------
\* The callbacks
\* ------------------------------------------------------------------------
\* graph_figure with the mask of the 'ALL' branch whatever the team.
graph_figure_any_team(selected_team, selected_archetypes, age_range) ==
    [kind |-> "figure",
     data |-> Masked(spi_data, {i \in DOMAIN spi_data :
                  graph_mask(spi_data[i], "ALL", selected_archetypes,
                             age_range)})]

\* The figure update_graph returns.
graph_figure(selected_team, selected_archetypes, age_range) ==
    [kind |-> "figure",
     data |-> Masked(spi_data, {i \in DOMAIN spi_data :
                  graph_mask(spi_data[i], selected_team, selected_archetypes,
                             age_range)})]

\* The results update_scatter_plot can have: a figure, or the IndexError of
\* trendline['data'][1] when there is no second trace.
scatter_results(selected_metric, selected_team, selected_archetypes, age_range) ==
    LET filtered_data == Masked(df_combined, {j \in DOMAIN df_combined :
            scatter_mask(df_combined[j], selected_team, selected_archetypes,
                         age_range)})
    IN  { IF tr = "absent"
          THEN CallbackError
          ELSE [kind |-> "figure", data |-> filtered_data,
                x |-> selected_metric,
                trendline_color |-> trendline_color(selected_metric),
                trendline |-> tr]
          : tr \in trendline_trace(Len(filtered_data)) }

update_graph ==
    /\ pending_graph
    /\ spi_scatter' = graph_figure(team_dropdown, archetype_dropdown, age_slider)
    /\ pending_graph' = FALSE
    /\ UNCHANGED <<tables, widgets, pending_scatter, scatter_plot>>

\* update_scatter_plot dropping the unmatched rows of df_combined in place.
update_scatter_plot_dropna ==
    /\ pending_scatter
    /\ scatter_plot' \in scatter_results(dropdown_metric, team_dropdown,
                                         archetype_dropdown, age_slider)
    /\ pending_scatter' = FALSE
    /\ df_combined' = SelectSeq(df_combined, LAMBDA c : c.Player # NaN)
    /\ UNCHANGED <<spi_data, salary_data, widgets, pending_graph, spi_scatter>>

update_scatter_plot ==
    /\ pending_scatter
    /\ scatter_plot' \in scatter_results(dropdown_metric, team_dropdown,
                                         archetype_dropdown, age_slider)
    /\ pending_scatter' = FALSE
    /\ UNCHANGED <<tables, widgets, pending_graph, spi_scatter>>

\* ------------------------------------------------------------------------
\* The widgets
\* ------------------------------------------------------------------------
SelectTeam ==
    /\ \E team \in {"ALL"} \cup valid_teams(spi_data) :
          /\ team # team_dropdown
          /\ team_dropdown' = team
    /\ pending_graph' = TRUE
    /\ pending_scatter' = TRUE
    /\ UNCHANGED <<tables, archetype_dropdown, age_slider, dropdown_metric,
                   spi_scatter, scatter_plot>>

SelectArchetypes ==
    /\ \E archetypes \in SUBSET archetype_options(spi_data) :
          /\ archetypes # archetype_dropdown
          /\ archetype_dropdown' = archetypes
    /\ pending_graph' = TRUE
    /\ pending_scatter' = TRUE
    /\ UNCHANGED <<tables, team_dropdown, age_slider, dropdown_metric,
                   spi_scatter, scatter_plot>>

SlideAge ==
    /\ \E low, high \in age_min(spi_data)..age_max(spi_data) :
          /\ low <= high
          /\ <<low, high>> # age_slider
          /\ age_slider' = <<low, high>>
    /\ pending_graph' = TRUE
    /\ pending_scatter' = TRUE
    /\ UNCHANGED <<tables, team_dropdown, archetype_dropdown, dropdown_metric,
                   spi_scatter, scatter_plot>>

\* SelectMetric with dropdown-metric among the Inputs of update_graph too.
SelectMetric_both ==
    /\ \E metric \in MetricValues :
          /\ metric # dropdown_metric
          /\ dropdown_metric' = metric
    /\ pending_graph' = TRUE
    /\ pending_scatter' = TRUE
    /\ UNCHANGED <<tables, team_dropdown, archetype_dropdown, age_slider,
                   spi_scatter, scatter_plot>>

SelectMetric ==
    /\ \E metric \in MetricValues :
          /\ metric # dropdown_metric
          /\ dropdown_metric' = metric
    /\ pending_scatter' = TRUE
    /\ UNCHANGED <<tables, team_dropdown, archetype_dropdown, age_slider,
                   pending_graph, spi_scatter, scatter_plot>>

\* ------------------------------------------------------------------------
\* Specifications
\* ------------------------------------------------------------------------
\* Module level: the tables are read and merged.
Load ==
    /\ spi_data \in PrimaryTables
    /\ salary_data \in SalaryTables
    /\ df_combined = merge(salary_data, spi_data)

\* The page as first served: the widgets hold the values of the layout, and
\* Dash triggers both callbacks.
Layout ==
    /\ team_dropdown = "ALL"
    /\ archetype_dropdown = archetype_options(spi_data)
    /\ age_slider = <<age_min(spi_data), age_max(spi_data)>>
    /\ dropdown_metric = "O-SPI"
    /\ pending_graph = TRUE
    /\ pending_scatter = TRUE
    /\ spi_scatter = NoFigure
    /\ scatter_plot = NoFigure

\* Primary tables of the dashboard specification: two players on two teams,
\* a player with one row per team stint, and a row without an archetype.
ExampleTables ==
    { << [Player |-> "A", Team |-> "X", OffensiveArchetype |-> "Slasher", Age |-> 1],
         [Player |-> "B", Team |-> "Y", OffensiveArchetype |-> "Shooter", Age |-> 2] >>,
      << [Player |-> "A", Team |-> "X", OffensiveArchetype |-> "Slasher", Age |-> 1],
         [Player |-> "A", Team |-> "Y", OffensiveArchetype |-> "Slasher", Age |-> 1] >>,
      << [Player |-> "A", Team |-> "X", OffensiveArchetype |-> NaN, Age |-> 2],
         [Player |-> "B", Team |-> NaN, OffensiveArchetype |-> "Shooter", Age |-> 1] >> }

\* The dashboard: any sequence of widget changes, each callback running some
\* time after a change of one of its Inputs.
Init ==
    /\ spi_data \in ExampleTables
    /\ salary_data \in SalaryTables
    /\ df_combined = merge(salary_data, spi_data)
    /\ Layout

Next ==
    \/ SelectTeam
    \/ SelectArchetypes
    \/ SlideAge
    \/ SelectMetric
    \/ update_graph
    \/ update_scatter_plot

Spec == Init /\ [][Next]_vars

\* The team, archetypes and age range the widgets can deliver.
Selection ==
    /\ team_dropdown \in {"ALL"} \cup valid_teams(spi_data)
    /\ archetype_dropdown \in SUBSET archetype_options(spi_data)
    /\ age_slider \in {r \in (age_min(spi_data)..age_max(spi_data))
                              \X (age_min(spi_data)..age_max(spi_data)) :
                         r[1] <= r[2]}
    /\ dropdown_metric = "O-SPI"

\* update_graph alone: one invocation with any selection on any primary
\* table.  No salary is read: the salary table is the empty one.
InitGraph ==
    /\ spi_data \in PrimaryTables
    /\ salary_data = <<>>
    /\ df_combined = merge(salary_data, spi_data)
    /\ Selection
    /\ pending_graph = TRUE
    /\ pending_scatter = FALSE
    /\ spi_scatter = NoFigure
    /\ scatter_plot = NoFigure

NextGraph == update_graph

SpecGraph == InitGraph /\ [][NextGraph]_vars

\* update_scatter_plot alone: one invocation with any selection on any pair
\* of tables (the metric, which the filter does not read, is the one of the
\* layout).
InitScatter ==
    /\ Load
    /\ Selection
    /\ pending_graph = FALSE
    /\ pending_scatter = TRUE
    /\ spi_scatter = NoFigure
    /\ scatter_plot = NoFigure

NextScatter == update_scatter_plot

SpecScatter == InitScatter /\ [][NextScatter]_vars

\* ------------------------------------------------------------------------
\* Properties
\* ------------------------------------------------------------------------
Range(seq) == {seq[k] : k \in DOMAIN seq}

\* A filtered table lists index labels of df once each, in table order.
IsSubframe(data, df) ==
    /\ \A k \in DOMAIN data : data[k] \in DOMAIN df
    /\ \A k, m \in DOMAIN data : k < m => data[k] < data[m]

\* The row predicate of the specification's filters.
Included(row, team, archetypes, ageRange) ==
    /\ team = "ALL" \/ row.Team = team
    /\ row.OffensiveArchetype \in archetypes
    /\ ageRange[1] <= row.Age
    /\ row.Age <= ageRange[2]

\* C1: the rows update_graph plots are exactly the rows of the primary table
\* with (team is ALL or row.team = team), archetype among the selected ones
\* and age within the range.
C1_GraphPlotsIncludedRows ==
    spi_scatter.kind = "figure" =>
        /\ IsSubframe(spi_scatter.data, spi_data)
        /\ \A i \in DOMAIN spi_data :
              i \in Range(spi_scatter.data) <=>
                  Included(spi_data[i], team_dropdown, archetype_dropdown, age_slider)

\* All teams selected: rows of two teams are plotted.
C1_Witness ==
    /\ spi_scatter.kind = "figure"
    /\ team_dropdown = "ALL"
    /\ \E i, k \in Range(spi_scatter.data) : spi_data[i].Team # spi_data[k].Team

\* The rows update_graph keeps for the current archetypes and age range when
\* all teams are selected.
AllTeamsRows == Range(graph_figure("ALL", archetype_dropdown, age_slider).data)

\* C2 as stated: with a specific team T the rows update_graph plots are a
\* strict subset of the rows it plots for all teams, all of team T.
C2_StrictSubset ==
    (spi_scatter.kind = "figure" /\ team_dropdown # "ALL") =>
        /\ Range(spi_scatter.data) \subseteq AllTeamsRows
        /\ Range(spi_scatter.data) # AllTeamsRows
        /\ \A i \in Range(spi_scatter.data) : spi_data[i].Team = team_dropdown

\* C2 amended: with a specific team T the rows update_graph plots are a
\* subset of the rows it plots for all teams, namely those of team T.
C2_Subset ==
    (spi_scatter.kind = "figure" /\ team_dropdown # "ALL") =>
        /\ Range(spi_scatter.data) \subseteq AllTeamsRows
        /\ \A i \in AllTeamsRows :
              i \in Range(spi_scatter.data) <=> spi_data[i].Team = team_dropdown

\* A team is selected, its rows are plotted and all teams would plot more.
C2_Witness ==
    /\ spi_scatter.kind = "figure"
    /\ team_dropdown # "ALL"
    /\ spi_scatter.data # <<>>
    /\ Range(spi_scatter.data) # AllTeamsRows

\* C3: update_scatter_plot keeps a combined row iff the predicate of
\* update_graph holds of it, which is (team is ALL or row.team = team),
\* archetype selected and age in range.
C3_SamePredicate ==
    scatter_plot.kind = "figure" =>
        /\ IsSubframe(scatter_plot.data, df_combined)
        /\ \A j \in DOMAIN df_combined :
              /\ j \in Range(scatter_plot.data) <=>
                     graph_mask(df_combined[j], team_dropdown,
                                archetype_dropdown, age_slider)
              /\ j \in Range(scatter_plot.data) <=>
                     Included(df_combined[j], team_dropdown,
                              archetype_dropdown, age_slider)

\* All teams selected and the salary scatter has points.
C3_Witness ==
    /\ scatter_plot.kind = "figure"
    /\ team_dropdown = "ALL"
    /\ scatter_plot.data # <<>>
    /\ Len(scatter_plot.data) < Len(df_combined)

\* The color the specification gives the regression line of a metric.
SpecifiedColor(metric) ==
    CASE metric = "SPI" -> good_color
      [] metric = "O-SPI" -> offense_color
      [] metric = "D-SPI" -> defense_color

\* C4: the regression line is green for SPI, blue for O-SPI and grey for
\* D-SPI.
C4_TrendlineColor ==
    scatter_plot.kind = "figure" =>
        scatter_plot.trendline_color = SpecifiedColor(scatter_plot.x)

\* C5: update_scatter_plot returns a chart for every selection; no
\* exception reaches the UI.
C5_NoCallbackError == scatter_plot.kind # "error"

\* The number of rows of a table whose column col holds v.
Count(df, col, v) == Cardinality({k \in DOMAIN df : df[k][col] = v})

ImpactOf(c) == [Player |-> c.Player, Team |-> c.Team,
                OffensiveArchetype |-> c.OffensiveArchetype, Age |-> c.Age]

\* A combined row carries the impact fields of a primary row with its name,
\* or missing values when no primary row has its name.
CarriesImpact(c) ==
    IF \E i \in DOMAIN spi_data : spi_data[i].Player = c.PlayerName
    THEN \E i \in DOMAIN spi_data :
            spi_data[i].Player = c.PlayerName /\ spi_data[i] = ImpactOf(c)
    ELSE ImpactOf(c) = [Player |-> NaN, Team |-> NaN,
                        OffensiveArchetype |-> NaN, Age |-> NaNAge]

\* C6 as stated: every salary record appears exactly once in the combined
\* table, with the impact fields of the primary row of its name or with
\* missing values.
C6_OncePerSalaryRecord ==
    /\ Len(df_combined) = Len(salary_data)
    /\ \A i \in DOMAIN df_combined :
          /\ i \in DOMAIN salary_data
          /\ df_combined[i].PlayerName = salary_data[i].PlayerName
          /\ CarriesImpact(df_combined[i])

\* C6 amended: every salary record appears once for each primary row with
\* its name, carrying that row's impact fields, and once with missing values
\* when no primary row has its name.
C6_OncePerMatch ==
    /\ \A n \in SalaryNames :
          Count(df_combined, "PlayerName", n) =
              Count(salary_data, "PlayerName", n)
                  * (IF Count(spi_data, "Player", n) = 0
                     THEN 1 ELSE Count(spi_data, "Player", n))
    /\ \A j \in DOMAIN df_combined : CarriesImpact(df_combined[j])
    /\ \A i \in DOMAIN spi_data :
          Count(salary_data, "PlayerName", spi_data[i].Player) > 0 =>
              \E j \in DOMAIN df_combined :
                  /\ df_combined[j].PlayerName = spi_data[i].Player
                  /\ ImpactOf(df_combined[j]) = spi_data[i]

\* A salary record matches two primary rows and another matches none.
C6_Witness ==
    /\ \E i \in DOMAIN salary_data :
          Count(spi_data, "Player", salary_data[i].PlayerName) = 2
    /\ \E i \in DOMAIN salary_data :
          Count(spi_data, "Player", salary_data[i].PlayerName) = 0
    /\ Len(df_combined) = 3

\* The selection of the layout: all teams, every archetype, the full range.
FullSelection ==
    /\ team_dropdown = "ALL"
    /\ archetype_dropdown = archetype_options(spi_data)
    /\ age_slider = <<age_min(spi_data), age_max(spi_data)>>

RECURSIVE Sum(_)
Sum(seq) == IF seq = <<>> THEN 0 ELSE Head(seq) + Sum(Tail(seq))

C8_NoNullRows ==
    scatter_plot.kind = "figure" =>
        \A k \in DOMAIN scatter_plot.data :
            /\ scatter_plot.data[k] \in DOMAIN df_combined
            /\ df_combined[scatter_plot.data[k]].Player # NaN
            /\ df_combined[scatter_plot.data[k]].Age # NaNAge

\* All teams and the missing archetype are selected, and the combined table
\* has a row with missing impact fields next to the plotted ones.
C8_Witness ==
    /\ scatter_plot.kind = "figure"
    /\ team_dropdown = "ALL"
    /\ NaN \in archetype_dropdown
    /\ \E j \in DOMAIN df_combined : df_combined[j].Player = NaN
    /\ scatter_plot.data # <<>>

\* C9: a change of team, archetypes or age range triggers both callbacks, a
\* change of the metric triggers update_scatter_plot only and leaves the
\* impact scatter as it is, and a figure whose callback has run since the
\* last change of its Inputs is the callback's result for the current
\* widget values.
C9_IndependentCells ==
    [][ /\ dropdown_metric' # dropdown_metric =>
              /\ spi_scatter' = spi_scatter
              /\ pending_graph' = pending_graph
              /\ pending_scatter'
        /\ <<team_dropdown, archetype_dropdown, age_slider>>' #
               <<team_dropdown, archetype_dropdown, age_slider>> =>
              pending_graph' /\ pending_scatter'
        /\ ~pending_graph' =>
              spi_scatter' =
                  graph_figure(team_dropdown, archetype_dropdown, age_slider)'
        /\ ~pending_scatter' =>
              scatter_plot' \in
                  scatter_results(dropdown_metric, team_dropdown,
                                  archetype_dropdown, age_slider)'
      ]_vars

\* Both callbacks have answered after the metric and the team were changed.
C9_Witness ==
    /\ ~pending_graph
    /\ ~pending_scatter
    /\ dropdown_metric = "SPI"
    /\ team_dropdown # "ALL"
    /\ spi_scatter.kind = "figure"
    /\ scatter_plot.kind = "figure"

\* C10: no step changes the primary, the salary or the combined table.
C10_TablesImmutable == [][tables' = tables]_vars

\* Both callbacks have run again after a change of the selection.
C10_Witness ==
    /\ ~pending_graph
    /\ ~pending_scatter
    /\ archetype_dropdown # archetype_options(spi_data)
    /\ age_slider # <<age_min(spi_data), age_max(spi_data)>>
    /\ spi_scatter.kind = "figure"
    /\ scatter_plot.kind \in {"figure", "error"}

====
